---- MODULE Spec2Model ----
(***************************************************************************)
(* Stock ledger of the inventory application in src/scripts/seed.js:       *)
(* product documents, purchase and sales orders, the inventory and cost    *)
(* logs, and the handlers that move stock (handleReceiveItems,             *)
(* handleShipOrder) or order status (handleApproveOrder).                  *)
(*                                                                         *)
(* The handlers run in browser clients against one Firestore database.     *)
(* runTransaction is the optimistic transaction of the Firestore client:   *)
(* every transaction.get reads the committed document, writes are staged,  *)
(* a get issued after a write has been staged is rejected ("Firestore      *)
(* transactions require all reads to be executed before all writes"), and  *)
(* the commit is refused and the update function run again when a document *)
(* that was read has been written since.                                   *)
(***************************************************************************)
EXTENDS Integers, Sequences, FiniteSets

\* ------------------------------------------------------------------ bounds
\* largest quantity typed into a line of the order form
MaxQty == 1
\* attempts of one runTransaction call before it gives up
MaxAttempts == 2

\* document ids (auto-generated by addDoc, handed out in this order)
ProductIds == <<"p1", "p2">>
PurchaseOrderIds == <<"po1", "po2">>
SalesOrderIds == <<"so1">>
\* browser sessions
Actors == {1, 2}

Range(s) == {s[k] : k \in 1..Len(s)}
Quantities == 1..MaxQty

\* a document that was never written, and one that was deleted
NoDoc == [exists |-> FALSE, deleted |-> FALSE]
Deleted == [exists |-> FALSE, deleted |-> TRUE]
IsDoc(d) == d.exists
\* a field that a document does not carry
Absent == <<>>
\* no id is left in the model's pool
NoId == ""

VARIABLES
  products,        \* collection 'products': id -> document
  purchaseOrders,  \* collection 'purchaseOrders'
  salesOrders,     \* collection 'salesOrders'
  inventoryLogs,   \* collection 'inventoryLogs', in timestamp order
  costLogs,        \* collection 'costLogs', in timestamp order
  rendered,        \* order id -> the statuses the order has been stored with
  client,          \* browser session -> the handler it is running
  nav,             \* InventorySystem: role, current view and what is on screen
  seed             \* the seed script: the collection seedCollection works on

vars == <<products, purchaseOrders, salesOrders, inventoryLogs, costLogs,
          rendered, client, nav, seed>>
\* everything but the sessions' handlers
store == <<products, purchaseOrders, salesOrders, inventoryLogs, costLogs, rendered,
           nav, seed>>
\* everything the stock ledger is made of
ledger == <<products, purchaseOrders, salesOrders, inventoryLogs, costLogs, rendered,
            client>>

\* ------------------------------------------------------------ rationals
\* averageCost is a JavaScript number; it is kept here as an exact
\* fraction <<numerator, denominator>> in lowest terms, denominator > 0.
RECURSIVE Gcd(_, _)
Gcd(a, b) == IF b = 0 THEN a ELSE Gcd(b, a % b)
Abs(x) == IF x < 0 THEN -x ELSE x
Rat(n, d) ==
  LET g == Gcd(Abs(n), Abs(d))
      s == IF d < 0 THEN -1 ELSE 1
  IN  IF n = 0 THEN <<0, 1>> ELSE <<(s * n) \div g, (s * d) \div g>>
RatOfInt(n) == <<n, 1>>
RatAdd(x, y) == Rat(x[1] * y[2] + y[1] * x[2], x[2] * y[2])
\* k * x, cancelling k against the denominator before multiplying
RatScale(k, x) ==
  LET g == Gcd(Abs(k), x[2])
  IN  IF k = 0 THEN <<0, 1>> ELSE Rat((k \div g) * x[1], x[2] \div g)
RatDivInt(x, k) == Rat(x[1], x[2] * k)
\* k decimal digits of r/d (0 <= r < d) by long division:
\* <<the digits as a number, the remainder left>>
RECURSIVE Decimals(_, _, _)
Decimals(r, d, k) ==
  IF k = 0 THEN <<0, r>>
  ELSE LET prev == Decimals(r, d, k - 1)
       IN  <<prev[1] * 10 + (prev[2] * 10) \div d, (prev[2] * 10) % d>>
\* Number.prototype.toFixed(5) of a value >= 0: the value rounded to five
\* decimals (half up), as a count of 1/100000
toFixed5(x) ==
  LET dec == Decimals(x[1] % x[2], x[2], 5)
  IN  (x[1] \div x[2]) * 100000 + dec[1] + (IF 2 * dec[2] >= x[2] THEN 1 ELSE 0)

\* ------------------------------------------------------------ the client
\* What one browser session holds while a handler runs: the order object
\* the handler was called with and the position it has reached.
\* the parts of the state a specification leaves aside
NavIdle == [role |-> "admin", currentView |-> "dashboard", expanded |-> TRUE,
            auth |-> "loading", effect |-> TRUE, screen |-> "Loading"]
SeedIdle == [pc |-> "none"]

IdleClient == [
  order |-> NoDoc, pc |-> "idle", op |-> "none", i |-> 0, attempt |-> 0,
  reads |-> {}, stale |-> FALSE,
  wProducts |-> <<>>, wInvLogs |-> <<>>, wCostLogs |-> <<>>,
  updatedItems |-> <<>>, outcome |-> "none", storedAtInvoke |-> "none"]

Init ==
  /\ products = [p \in Range(ProductIds) |-> NoDoc]
  /\ purchaseOrders = [o \in Range(PurchaseOrderIds) |-> NoDoc]
  /\ salesOrders = [o \in Range(SalesOrderIds) |-> NoDoc]
  /\ inventoryLogs = <<>>
  /\ costLogs = <<>>
  /\ rendered = [o \in Range(PurchaseOrderIds) \cup Range(SalesOrderIds) |-> {}]
  /\ client = [a \in Actors |-> IdleClient]
  /\ nav = NavIdle
  /\ seed = SeedIdle

\* the id addDoc generates: an id no document of the collection ever had
FreshId(ids, coll) ==
  LET unused == {k \in 1..Len(ids) : coll[ids[k]] = NoDoc}
  IN  IF unused = {} THEN NoId
      ELSE ids[CHOOSE k \in unused : \A j \in unused : k <= j]

\* a database that never fails a commit over a concurrent write
Invalidate_None(cl, a, ws) == cl

\* A committed write of the documents ws makes every running transaction
\* of another client that has read one of them fail its commit.
Invalidate(cl, a, ws) ==
  [b \in Actors |->
     IF b # a /\ cl[b].reads \cap ws # {}
     THEN [cl[b] EXCEPT !.stale = TRUE] ELSE cl[b]]

\* ------------------------------------------------------ product master data
\* ProductForm.handleSubmit falls back to this threshold on an empty field
DefaultThreshold == 5
\* the thresholds typed into the product form
Thresholds == {DefaultThreshold, 10}

\* a product form that also saves a stock of 0
productData_WithStock(t) == [lowStockThreshold |-> t, stock |-> 0]

\* ProductForm.handleSubmit: the fields the form saves (sku, brand, name,
\* spec, description, the four prices and lowStockThreshold; the threshold
\* stands for all of them)
productData(t) == [lowStockThreshold |-> t]

\* ProductManagement.handleAdd
handleAdd ==
  LET id == FreshId(ProductIds, products)
  IN  /\ id # NoId
      /\ products' = [products EXCEPT
                        ![id] = [exists |-> TRUE, stock |-> 0, averageCost |-> RatOfInt(0), cost |-> 0,
                                 lowStockThreshold |-> productData(DefaultThreshold).lowStockThreshold]]
      /\ UNCHANGED <<purchaseOrders, salesOrders, inventoryLogs, costLogs, rendered, client, nav, seed>>

\* the products that get deleted in the runs explored
Deletable == {ProductIds[Len(ProductIds)]}

\* ProductManagement.handleDelete
handleDelete(p) ==
  /\ IsDoc(products[p])
  /\ products' = [products EXCEPT ![p] = Deleted]
  /\ client' = Invalidate(client, 0, {p})
  /\ UNCHANGED <<purchaseOrders, salesOrders, inventoryLogs, costLogs, rendered, nav, seed>>

\* ------------------------------------------------------------ order forms
\* OrderForm: the lines a form can hold, over the products its select
\* lists; the cost of a line is the product's `cost` field.
FormLine(p, q) == [productId |-> p, quantity |-> q, cost |-> products[p].cost,
                   costAtSale |-> Absent]
\* the line a new form opens with, and the one addItem appends
BlankLine == [productId |-> "", quantity |-> 1, cost |-> 0, costAtSale |-> Absent]
\* the quantity field holds parseInt(value) || 1: any whole number but 0
\* (the select's `required` and the input's `min` are left aside: the items
\* state can hold a line without product or with a negative quantity)
FormLines == {FormLine(p, q) : p \in {x \in Range(ProductIds) : IsDoc(products[x])},
                               q \in Quantities \cup {-1}}
             \cup {BlankLine}
\* a form that passes on every line it holds
finalItems_All(items) == items

\* OrderForm.handleSubmit keeps the lines with a product and quantity > 0
\* and refuses an empty list
finalItems(items) == SelectSeq(items, LAMBDA it : it.productId # "" /\ it.quantity > 0)
\* the forms submitted: no line (all removed), one line of any quantity, or
\* two lines of one unit (or of no use) each
Forms ==
  LET units == {l \in FormLines : l.quantity <= 1}
  IN  {<<>>} \cup {<<l>> : l \in FormLines} \cup {<<l, m>> : l \in units, m \in units}

\* PurchaseManagement.handleAddOrder
handleAddPurchaseOrder ==
  LET id == FreshId(PurchaseOrderIds, purchaseOrders)
  IN  /\ id # NoId
      /\ \E f \in Forms :
           IF Len(finalItems(f)) = 0
           THEN UNCHANGED vars
           ELSE /\ purchaseOrders' = [purchaseOrders EXCEPT
                     ![id] = [exists |-> TRUE, id |-> id, orderNumber |-> id,
                              status |-> "Pending", items |-> finalItems(f)]]
                /\ rendered' = [rendered EXCEPT ![id] = {"Pending"}]
                /\ UNCHANGED <<products, salesOrders, inventoryLogs, costLogs, client,
                               nav, seed>>

\* SalesManagement.handleAddOrder
handleAddSalesOrder ==
  LET id == FreshId(SalesOrderIds, salesOrders)
  IN  /\ id # NoId
      /\ \E f \in Forms :
           IF Len(finalItems(f)) = 0
           THEN UNCHANGED vars
           ELSE /\ salesOrders' = [salesOrders EXCEPT
                     ![id] = [exists |-> TRUE, id |-> id, orderNumber |-> id,
                              status |-> "Pending Approval", items |-> finalItems(f),
                              remarks |-> Absent]]
                /\ rendered' = [rendered EXCEPT ![id] = {"Pending Approval"}]
                /\ UNCHANGED <<products, purchaseOrders, inventoryLogs, costLogs, client,
                               nav, seed>>

\* ------------------------------------------------------------ the screens
IsPurchase(o) == o \in DOMAIN purchaseOrders
StoredOrder(o) == IF IsPurchase(o) THEN purchaseOrders[o] ELSE salesOrders[o]
StoredStatus(o) == IF IsDoc(StoredOrder(o)) THEN StoredOrder(o).status ELSE "none"

\* onSnapshot delivers the stored orders to the screens some time after
\* each write, and the order opened in the shipping modal is never
\* refreshed: the order object a button hands to its handler is a version
\* the order has been stored with, not necessarily the latest.  The lines
\* of an order (productId, quantity, cost) are the same in all versions.
Shows(o, status) == IsDoc(StoredOrder(o)) /\ status \in rendered[o]
\* what the handlers use of the order object they are called with
OrderObject(o) == [exists |-> TRUE, id |-> o,
                   orderNumber |-> StoredOrder(o).orderNumber,
                   items |-> StoredOrder(o).items]

\* A handler call runs in the first session that is free: sessions differ
\* in nothing but the handler they run.
Free(a) == client[a].pc = "idle" /\ \A b \in Actors : b < a => client[b].pc # "idle"

\* --------------------------------------------------------- runTransaction
\* a fresh run of the update function
Attempt(c, n, start) ==
  [c EXCEPT !.pc = start, !.attempt = n, !.i = 1, !.reads = {}, !.stale = FALSE,
            !.wProducts = <<>>, !.wInvLogs = <<>>, !.wCostLogs = <<>>,
            !.updatedItems = <<>>]
\* the handler has ended and shows its message
Finish(c, outcome) ==
  [IdleClient EXCEPT !.pc = "done", !.op = c.op, !.attempt = c.attempt,
                     !.outcome = outcome, !.storedAtInvoke = c.storedAtInvoke]
\* transaction.get(ref) is refused once a write has been staged
WritesStaged(c) == c.wProducts # <<>> \/ c.wInvLogs # <<>> \/ c.wCostLogs # <<>>
\* The loop over order.items after the writes of line c.i were staged: the
\* last line leaves the loop for the commit; otherwise the next turn opens
\* with transaction.get, which throws before anything is read when writes
\* are staged.
NextTurn(c) ==
  IF c.i = Len(c.order.items) THEN [c EXCEPT !.pc = "commit"]
  ELSE IF WritesStaged(c) THEN Finish(c, "ReadAfterWrite")
  ELSE [c EXCEPT !.i = @ + 1]

\* ---------------------------------------------------- handleReceiveItems
\* OrderList shows the receive button on a row whose status is 'Pending'
ClickReceive(a, o) ==
  LET c == client[a]
  IN  /\ Free(a)
      /\ IsPurchase(o) /\ Shows(o, "Pending")
      /\ client' = [client EXCEPT ![a] =
           Attempt([c EXCEPT !.op = "receive", !.order = OrderObject(o),
                             !.storedAtInvoke = StoredStatus(o)],
                   1, "getOrder")]
      /\ UNCHANGED store

\* a status test that only looks for the document
NotReceivable_MissingOnly(orderDoc) == ~IsDoc(orderDoc)

\* the status test on the order read inside the transaction
NotReceivable(orderDoc) == ~IsDoc(orderDoc) \/ orderDoc.status = "Received"

ReceiveGetOrder(a) ==
  LET c == client[a]
      orderDoc == purchaseOrders[c.order.id]
  IN  /\ c.pc = "getOrder"
      /\ client' = [client EXCEPT ![a] =
           IF NotReceivable(orderDoc)
           THEN Finish(c, "OrderNotReceivable")
           ELSE [c EXCEPT !.pc = "getProduct", !.reads = @ \cup {c.order.id}]]
      /\ UNCHANGED store

\* a costing that keeps the cost of the last receipt
newAvgCost_LastCost(oldStock, oldAvgCost, item) == RatOfInt(item.cost)

\* a costing that takes the plain mean of the old average and the line cost
newAvgCost_Unweighted(oldStock, oldAvgCost, item) ==
  IF oldStock + item.quantity > 0
  THEN RatDivInt(RatAdd(oldAvgCost, RatOfInt(item.cost)), 2)
  ELSE RatOfInt(item.cost)

\* a costing that weighs the old average by the stock after the receipt
newAvgCost_NewStockWeighted(oldStock, oldAvgCost, item) ==
  LET newStock == oldStock + item.quantity
  IN  IF newStock > 0
      THEN RatDivInt(RatAdd(RatScale(newStock, oldAvgCost),
                            RatOfInt(item.quantity * item.cost)), newStock)
      ELSE RatOfInt(item.cost)

\* a costing that takes the value of the receipt off the value in stock
newAvgCost_Deducted(oldStock, oldAvgCost, item) ==
  LET newStock == oldStock + item.quantity
  IN  IF newStock > 0
      THEN RatDivInt(RatAdd(RatScale(oldStock, oldAvgCost),
                            RatOfInt(-(item.quantity * item.cost))), newStock)
      ELSE RatOfInt(item.cost)

\* the costing of one received line
newAvgCost(oldStock, oldAvgCost, item) ==
  LET newStock == oldStock + item.quantity
  IN  IF newStock > 0
      THEN RatDivInt(RatAdd(RatScale(oldStock, oldAvgCost),
                            RatOfInt(item.quantity * item.cost)), newStock)
      ELSE RatOfInt(item.cost)

\* a receipt logged with the stock it found
inLog_StaleStock(item, newStock, orderNumber) ==
  [productId |-> item.productId, type |-> "in", change |-> item.quantity,
   newStock |-> newStock - item.quantity, relatedDoc |-> orderNumber]

\* the inventory log document of one received line
inLog(item, newStock, orderNumber) ==
  [productId |-> item.productId, type |-> "in", change |-> item.quantity,
   newStock |-> newStock, relatedDoc |-> orderNumber]

\* one turn of the loop over order.items
ReceiveItem(a) ==
  LET c == client[a]
      item == c.order.items[c.i]
      productDoc == products[item.productId]
      oldStock == productDoc.stock
      oldAvgCost == productDoc.averageCost
      newStock == oldStock + item.quantity
      newAvg == newAvgCost(oldStock, oldAvgCost, item)
  IN  /\ c.pc = "getProduct" /\ c.op = "receive"
      /\ client' = [client EXCEPT ![a] =
           IF ~IsDoc(productDoc) THEN Finish(c, "ProductNotFound")
           ELSE NextTurn([c EXCEPT
             !.reads = @ \cup {item.productId},
             !.wProducts = Append(@, [productId |-> item.productId,
                  fields |-> [stock |-> newStock, averageCost |-> newAvg,
                              cost |-> item.cost]]),
             !.wInvLogs = Append(@, inLog(item, newStock, c.order.orderNumber)),
             !.wCostLogs = IF toFixed5(oldAvgCost) # toFixed5(newAvg)
                  THEN Append(@, [productId |-> item.productId,
                         relatedDoc |-> c.order.orderNumber,
                         oldAvgCost |-> oldAvgCost, newAvgCost |-> newAvg])
                  ELSE @])]
      /\ UNCHANGED store

\* ------------------------------------------------------- handleShipOrder
\* ShippingDetailModal shows the ship button when the order it was opened
\* with has status 'Pending Shipment'
ClickShip(a, o) ==
  LET c == client[a]
  IN  /\ Free(a)
      /\ ~IsPurchase(o) /\ Shows(o, "Pending Shipment")
      /\ client' = [client EXCEPT ![a] =
           Attempt([c EXCEPT !.op = "ship", !.order = OrderObject(o),
                             !.storedAtInvoke = StoredStatus(o)],
                   1, "getProduct")]
      /\ UNCHANGED store

\* a stock test that only looks for the document
Insufficient_MissingOnly(productDoc, item) == ~IsDoc(productDoc)

\* the stock test of one shipped line
Insufficient(productDoc, item) == ~IsDoc(productDoc) \/ productDoc.stock < item.quantity

\* a shipment logged with the sign of a receipt
outLog_Unsigned(item, newStock, orderNumber) ==
  [productId |-> item.productId, type |-> "out", change |-> item.quantity,
   newStock |-> newStock, relatedDoc |-> orderNumber]

\* the inventory log document of one shipped line
outLog(item, newStock, orderNumber) ==
  [productId |-> item.productId, type |-> "out", change |-> -item.quantity,
   newStock |-> newStock, relatedDoc |-> orderNumber]

\* a product update that also resets the average cost to the line's cost
shipUpdate_Costed(productDoc, item) ==
  [stock |-> productDoc.stock - item.quantity, averageCost |-> RatOfInt(item.cost)]

\* the fields of the product a shipped line writes
shipUpdate(productDoc, item) == [stock |-> productDoc.stock - item.quantity]

\* a stamp taken from the line's own cost
costAtSale_LineCost(productDoc, item) == RatOfInt(item.cost)

\* the cost stamped on a shipped line
costAtSale(productDoc, item) == productDoc.averageCost

\* one turn of the loop over order.items
ShipItem(a) ==
  LET c == client[a]
      item == c.order.items[c.i]
      productDoc == products[item.productId]
      newStock == productDoc.stock - item.quantity
  IN  /\ c.pc = "getProduct" /\ c.op = "ship"
      /\ client' = [client EXCEPT ![a] =
           IF Insufficient(productDoc, item) THEN Finish(c, "InsufficientStock")
           ELSE NextTurn([c EXCEPT
             !.reads = @ \cup {item.productId},
             !.wProducts = Append(@, [productId |-> item.productId,
                  fields |-> shipUpdate(productDoc, item)]),
             !.updatedItems = Append(@, [item EXCEPT
                  !.costAtSale = costAtSale(productDoc, item)]),
             !.wInvLogs = Append(@, outLog(item, newStock, c.order.orderNumber))])]
      /\ UNCHANGED store

\* ------------------------------------------------------------ the commit
\* transaction.update(ref, fields) merges the fields into the document
Merge(docu, fields) ==
  [f \in DOMAIN docu |-> IF f \in DOMAIN fields THEN fields[f] ELSE docu[f]]
RECURSIVE ApplyWrites(_, _)
ApplyWrites(prods, ws) ==
  IF ws = <<>> THEN prods
  ELSE ApplyWrites([prods EXCEPT ![ws[1].productId] = Merge(@, ws[1].fields)], Tail(ws))

\* a set on one fixed document, which every commit overwrites
addLogs_FixedDoc(log, entries) == entries

\* transaction.set(doc(collection(...)), entry): every entry becomes a new
\* document of the log collection
addLogs(log, entries) == log \o entries

\* a commit that is never refused
CommitRefused_Never(c) == FALSE

\* the commit is refused when a document read by the run has changed
CommitRefused(c) == c.stale

\* a runTransaction that runs its update function again without limit
MayRetry_Always(c) == TRUE

\* runTransaction runs the update function again while attempts are left
MayRetry(c) == c.attempt < MaxAttempts

Commit(a) ==
  LET c == client[a]
      o == c.order.id
      start == IF c.op = "receive" THEN "getOrder" ELSE "getProduct"
      written == {c.wProducts[k].productId : k \in 1..Len(c.wProducts)} \cup {o}
  IN  /\ c.pc = "commit"
      /\ IF CommitRefused(c)
         THEN /\ client' = [client EXCEPT ![a] =
                   IF MayRetry(c)
                   THEN Attempt(c, c.attempt + 1, start)
                   ELSE Finish(c, "ConcurrencyConflict")]
              /\ UNCHANGED store
         ELSE /\ products' = ApplyWrites(products, c.wProducts)
              /\ inventoryLogs' = addLogs(inventoryLogs, c.wInvLogs)
              /\ costLogs' = addLogs(costLogs, c.wCostLogs)
              /\ IF c.op = "receive"
                 THEN /\ purchaseOrders' =
                           [purchaseOrders EXCEPT ![o].status = "Received"]
                      /\ UNCHANGED salesOrders
                 ELSE /\ salesOrders' =
                           [salesOrders EXCEPT ![o].status = "Completed",
                                               ![o].items = c.updatedItems]
                      /\ UNCHANGED purchaseOrders
              /\ rendered' = [rendered EXCEPT ![o] = @ \cup
                     {IF c.op = "receive" THEN "Received" ELSE "Completed"}]
              /\ client' = [Invalidate(client, a, written) EXCEPT
                              ![a] = Finish(c, "ok")]
              /\ UNCHANGED <<nav, seed>>

\* the message (showMessage) is closed
Dismiss(a) ==
  /\ client[a].pc = "done"
  /\ client' = [client EXCEPT ![a] = IdleClient]
  /\ UNCHANGED store

\* ---------------------------------------------------- handleApproveOrder
\* OrderList shows the approve button on a row whose status is
\* 'Pending Approval'; the handler writes the status without reading it
handleApproveOrder(a, o) ==
  /\ Free(a)
  /\ ~IsPurchase(o) /\ Shows(o, "Pending Approval")
  /\ salesOrders' = [salesOrders EXCEPT ![o].status = "Pending Shipment"]
  /\ rendered' = [rendered EXCEPT ![o] = @ \cup {"Pending Shipment"}]
  /\ client' = Invalidate(client, a, {o})
  /\ UNCHANGED <<products, purchaseOrders, inventoryLogs, costLogs, nav, seed>>

\* ProductManagement.handleUpdate: updateDoc merges the form's fields into
\* the product of the row that was edited
handleUpdate(p, t) ==
  /\ IsDoc(products[p])
  /\ products' = [products EXCEPT ![p] = Merge(@, productData(t))]
  /\ client' = Invalidate(client, 0, {p})
  /\ UNCHANGED <<purchaseOrders, salesOrders, inventoryLogs, costLogs, rendered, nav, seed>>

\* the remarks typed into the shipping modal
Remarks == {"fragile"}

\* WarehouseShippingManagement.handleSaveRemarks: the modal is opened from
\* the shipping list, which holds the orders stored as 'Pending Shipment'
\* or 'Completed'
handleSaveRemarks(o, r) ==
  /\ ~IsPurchase(o)
  /\ Shows(o, "Pending Shipment") \/ Shows(o, "Completed")
  /\ salesOrders' = [salesOrders EXCEPT ![o] = Merge(@, [remarks |-> r])]
  /\ client' = Invalidate(client, 0, {o})
  /\ UNCHANGED <<products, purchaseOrders, inventoryLogs, costLogs, rendered, nav, seed>>

\* ------------------------------------------------------------------ Next
Orders == DOMAIN purchaseOrders \cup DOMAIN salesOrders

Next ==
  \/ handleAdd
  \/ \E p \in Deletable : handleDelete(p)
  \/ handleAddPurchaseOrder
  \/ handleAddSalesOrder
  \/ \E a \in Actors, o \in Orders : ClickReceive(a, o)
  \/ \E a \in Actors : ReceiveGetOrder(a)
  \/ \E a \in Actors : ReceiveItem(a)
  \/ \E a \in Actors, o \in Orders : ClickShip(a, o)
  \/ \E a \in Actors : ShipItem(a)
  \/ \E a \in Actors : Commit(a)
  \/ \E a \in Actors : Dismiss(a)
  \/ \E a \in Actors, o \in Orders : handleApproveOrder(a, o)

Spec == Init /\ [][Next]_vars

\* ------------------------------------------------------- stored documents
\* The costing is a function of the documents the handlers are given: the
\* cost of an order line is whatever the order document stores (OrderForm
\* copies it from the product's `cost` field, which no screen edits).  This
\* second specification starts from stored documents whose lines are drawn
\* from the sets below and runs the two movement handlers on them.
CostPurchaseOrderIds == <<"po1", "po2", "po3">>
StoredLine(p, q, c) == [productId |-> p, quantity |-> q, cost |-> c, costAtSale |-> Absent]
\* the item lists of the stored purchase orders
StoredPurchaseItems ==
  [po1 |-> {<<StoredLine("p1", 10, 100)>>, <<StoredLine("p2", 1000000, 100)>>},
   po2 |-> {<<StoredLine("p1", 5, 130)>>, <<StoredLine("p2", 1, 104)>>},
   po3 |-> {<<StoredLine("p1", 5, 100)>>, <<StoredLine("p1", 0, 100)>>,
            <<StoredLine("p1", 10, 100), StoredLine("p1", 5, 130)>>}]
\* the item lists of the stored sales order
StoredSalesItems ==
  [so1 |-> {<<StoredLine("p1", 12, 100)>>}]

InitCost ==
  /\ products = [p \in Range(ProductIds) |->
                   [exists |-> TRUE, stock |-> 0, averageCost |-> RatOfInt(0), cost |-> 0,
                    lowStockThreshold |-> DefaultThreshold]]
  /\ \E f \in [Range(CostPurchaseOrderIds) -> UNION {StoredPurchaseItems[o] : o \in Range(CostPurchaseOrderIds)}] :
       /\ \A o \in Range(CostPurchaseOrderIds) : f[o] \in StoredPurchaseItems[o]
       /\ purchaseOrders = [o \in Range(CostPurchaseOrderIds) |->
            [exists |-> TRUE, id |-> o, orderNumber |-> o, status |-> "Pending",
             items |-> f[o]]]
  /\ \E f \in [Range(SalesOrderIds) -> UNION {StoredSalesItems[o] : o \in Range(SalesOrderIds)}] :
       /\ \A o \in Range(SalesOrderIds) : f[o] \in StoredSalesItems[o]
       /\ salesOrders = [o \in Range(SalesOrderIds) |->
            [exists |-> TRUE, id |-> o, orderNumber |-> o, status |-> "Pending Shipment",
             items |-> f[o], remarks |-> Absent]]
  /\ inventoryLogs = <<>>
  /\ costLogs = <<>>
  /\ rendered = [o \in Range(CostPurchaseOrderIds) \cup Range(SalesOrderIds) |->
                   IF o \in Range(SalesOrderIds) THEN {"Pending Shipment"} ELSE {"Pending"}]
  /\ client = [a \in Actors |-> IdleClient]
  /\ nav = NavIdle
  /\ seed = SeedIdle

NextCost ==
  \/ \E a \in Actors, o \in Orders : ClickReceive(a, o)
  \/ \E a \in Actors : ReceiveGetOrder(a)
  \/ \E a \in Actors : ReceiveItem(a)
  \/ \E a \in Actors, o \in Orders : ClickShip(a, o)
  \/ \E a \in Actors : ShipItem(a)
  \/ \E a \in Actors : Commit(a)
  \/ \E a \in Actors : Dismiss(a)

SpecCost == InitCost /\ [][NextCost]_vars

\* ------------------------------------------------------- the back office
\* The screens that write without moving stock, next to the two handlers
\* that move it.  This specification starts from one product and one stored
\* purchase order with a cost, so that stock and average cost are not zero
\* when the other screens write.
InitMaster ==
  /\ products = [p \in Range(ProductIds) |->
                   IF p = ProductIds[1]
                   THEN [exists |-> TRUE, stock |-> 0, averageCost |-> RatOfInt(0), cost |-> 0,
                         lowStockThreshold |-> DefaultThreshold]
                   ELSE NoDoc]
  /\ purchaseOrders = [o \in Range(PurchaseOrderIds) |->
                         IF o = PurchaseOrderIds[1]
                         THEN [exists |-> TRUE, id |-> o, orderNumber |-> o, status |-> "Pending",
                               items |-> <<StoredLine(ProductIds[1], 2, 100)>>]
                         ELSE NoDoc]
  /\ salesOrders = [o \in Range(SalesOrderIds) |-> NoDoc]
  /\ inventoryLogs = <<>>
  /\ costLogs = <<>>
  /\ rendered = [o \in Range(PurchaseOrderIds) \cup Range(SalesOrderIds) |->
                   IF o = PurchaseOrderIds[1] THEN {"Pending"} ELSE {}]
  /\ client = [a \in Actors |-> IdleClient]
  /\ nav = NavIdle
  /\ seed = SeedIdle

\* one browser session runs the handlers here
MasterActors == {1}

NextMaster ==
  \/ handleAdd
  \/ \E p \in Range(ProductIds), t \in Thresholds : handleUpdate(p, t)
  \/ handleAddPurchaseOrder
  \/ handleAddSalesOrder
  \/ \E a \in MasterActors, o \in Orders : handleApproveOrder(a, o)
  \/ \E o \in Orders, r \in Remarks : handleSaveRemarks(o, r)
  \/ \E a \in MasterActors, o \in Orders : ClickReceive(a, o)
  \/ \E a \in MasterActors : ReceiveGetOrder(a)
  \/ \E a \in MasterActors : ReceiveItem(a)
  \/ \E a \in MasterActors, o \in Orders : ClickShip(a, o)
  \/ \E a \in MasterActors : ShipItem(a)
  \/ \E a \in MasterActors : Commit(a)
  \/ \E a \in MasterActors : Dismiss(a)

SpecMaster == InitMaster /\ [][NextMaster]_vars

\* -------------------------------------------------------- the seed script
\* seedCollection(collectionPath, data, subcollectionConfig) on one
\* collection of the database.  The documents the collection held before the
\* call are counted, not named: `old` of them are left, with `oldSub`
\* documents in their subcollections.
\* the page size of the query that fetches the documents to delete
Limit == 500
\* documents held before the call: up to Limit + MaxExtra
MaxExtra == 2
\* elements of data: up to MaxData
MaxData == 2
\* runs of the script: up to MaxRuns
MaxRuns == 2

\* an element of data: without an items field, or with one item
DataItems == {[items |-> Absent], [items |-> <<"p1">>]}
DataLists == UNION {[1..n -> DataItems] : n \in 0..MaxData}

Min(x, y) == IF x < y THEN x ELSE y

InitSeed ==
  /\ products = [p \in Range(ProductIds) |-> NoDoc]
  /\ purchaseOrders = [o \in Range(PurchaseOrderIds) |-> NoDoc]
  /\ salesOrders = [o \in Range(SalesOrderIds) |-> NoDoc]
  /\ inventoryLogs = <<>>
  /\ costLogs = <<>>
  /\ rendered = [o \in Range(PurchaseOrderIds) \cup Range(SalesOrderIds) |-> {}]
  /\ client = [a \in Actors |-> IdleClient]
  /\ nav = NavIdle
  /\ \E n \in 0..(Limit + MaxExtra), s \in 0..1, data \in DataLists, config \in BOOLEAN :
       seed = [pc |-> "start", run |-> 1, old |-> n, oldSub |-> n * s,
               data |-> data, config |-> config, docs |-> <<>>, docIds |-> <<>>]

\* collectionRef.limit(500).get() and the batch that deletes what it
\* returned; deleting a document leaves the documents of its subcollections
SeedClear ==
  LET size == Min(seed.old, Limit)
  IN  /\ seed.pc = "start"
      /\ seed' = [seed EXCEPT !.pc = "cleared", !.old = @ - size]
      /\ UNCHANGED <<ledger, nav>>

\* the document batch.set writes for element k of data: the element
\* without its items field (when a subcollection is configured), under a
\* generated id, and one subcollection document per item
SeedDoc(item, k, config, run) ==
  [id |-> <<run, k>>,
   items |-> IF config THEN Absent ELSE item.items,
   sub |-> IF config /\ item.items # Absent THEN Range(item.items) ELSE {}]

\* the batch that writes data, and the returned docIds
SeedFill ==
  /\ seed.pc = "cleared"
  /\ seed' = [seed EXCEPT
       !.pc = "done",
       !.docs = [k \in 1..Len(seed.data) |->
                   SeedDoc(seed.data[k], k, seed.config, seed.run)],
       !.docIds = [k \in 1..Len(seed.data) |-> <<seed.run, k>>]]
  /\ UNCHANGED <<ledger, nav>>

RECURSIVE SubCount(_)
SubCount(docs) ==
  IF docs = <<>> THEN 0 ELSE Cardinality(docs[1].sub) + SubCount(Tail(docs))

\* the script is run again on the collection it has filled
SeedRerun ==
  /\ seed.pc = "done" /\ seed.run < MaxRuns
  /\ seed' = [seed EXCEPT !.pc = "start", !.run = @ + 1,
                          !.old = @ + Len(seed.docs),
                          !.oldSub = @ + SubCount(seed.docs),
                          !.docs = <<>>, !.docIds = <<>>]
  /\ UNCHANGED <<ledger, nav>>

NextSeed == SeedClear \/ SeedFill \/ SeedRerun

SpecSeed == InitSeed /\ [][NextSeed]_vars

\* ------------------------------------------------------------ navigation
\* InventorySystem: the role (AuthProvider), the current view, the sidebar
\* group being open, the sign-in, whether the effect on [role, currentView]
\* is still to run, and the component renderView returned at the last
\* render.
Roles == {"admin", "warehouse"}

MenuItem(id, children) == [id |-> id, children |-> children]
allViews == <<
  MenuItem("dashboard", <<>>),
  MenuItem("basicData", <<"products", "customers", "suppliers">>),
  MenuItem("inventory", <<>>),
  MenuItem("sales", <<>>),
  MenuItem("shipping", <<>>),
  MenuItem("purchases", <<>>),
  MenuItem("reports", <<>>) >>

getAvailableViews(role) ==
  IF role = "admin" THEN allViews
  ELSE IF role = "warehouse"
  THEN SelectSeq(allViews, LAMBDA view : view.id \in {"dashboard", "shipping"}
                                          /\ view.children = <<>>)
  ELSE <<>>

\* availableViews.flatMap(v => v.children ? v.children : v), as ids
flatViews(role) ==
  UNION {IF v.children # <<>> THEN Range(v.children) ELSE {v.id} :
           v \in Range(getAvailableViews(role))}

\* the component each admin-only view renders
AdminComponent ==
  [products |-> "ProductManagement", customers |-> "CustomerManagement",
   suppliers |-> "SupplierManagement", inventory |-> "InventoryManagement",
   sales |-> "SalesManagement", purchases |-> "PurchaseManagement",
   reports |-> "Reports"]

\* a renderView that does not look at the role
renderView_Unguarded(role, currentView, auth) ==
  IF auth # "user" THEN "Loading"
  ELSE IF currentView \in DOMAIN AdminComponent THEN AdminComponent[currentView]
  ELSE IF currentView = "shipping" THEN "WarehouseShippingManagement"
  ELSE "Dashboard"

renderView(role, currentView, auth) ==
  IF auth # "user" THEN "Loading"
  ELSE IF currentView \in DOMAIN AdminComponent
  THEN (IF role = "admin" THEN AdminComponent[currentView] ELSE "AccessDenied")
  ELSE IF currentView = "shipping" THEN "WarehouseShippingManagement"
  ELSE "Dashboard"

\* a state change renders the component again
Render(n) == [n EXCEPT !.screen = renderView(n.role, n.currentView, n.auth)]

\* AuthProvider: onAuthStateChanged delivers the user, or the anonymous
\* sign-in fails
onAuthStateChanged(result) ==
  /\ nav.auth = "loading"
  /\ nav' = Render([nav EXCEPT !.auth = result])
  /\ UNCHANGED <<ledger, seed>>

\* Header: the role select
setRole(r) ==
  /\ ~nav.effect /\ r # nav.role
  /\ nav' = Render([nav EXCEPT !.role = r, !.effect = TRUE])
  /\ UNCHANGED <<ledger, seed>>

\* Sidebar: the buttons that call setCurrentView
Clickable ==
  UNION {IF v.children = <<>> THEN {v.id}
         ELSE IF nav.expanded THEN Range(v.children) ELSE {} :
           v \in Range(getAvailableViews(nav.role))}

setCurrentView(v) ==
  /\ ~nav.effect /\ v \in Clickable /\ v # nav.currentView
  /\ nav' = Render([nav EXCEPT !.currentView = v, !.effect = TRUE])
  /\ UNCHANGED <<ledger, seed>>

\* Sidebar: the button of the group opens and closes it
handleParentClick ==
  /\ ~nav.effect
  /\ \E v \in Range(getAvailableViews(nav.role)) : v.children # <<>>
  /\ nav' = [nav EXCEPT !.expanded = ~@]
  /\ UNCHANGED <<ledger, seed>>

\* InventorySystem: the effect on [role, currentView], run after the render
\* and before the next event is handled
useEffect ==
  /\ nav.effect
  /\ nav' = IF nav.currentView \notin flatViews(nav.role) /\ nav.currentView # "dashboard"
            THEN Render([nav EXCEPT !.currentView = "dashboard"])
            ELSE [nav EXCEPT !.effect = FALSE]
  /\ UNCHANGED <<ledger, seed>>

InitNav ==
  /\ products = [p \in Range(ProductIds) |-> NoDoc]
  /\ purchaseOrders = [o \in Range(PurchaseOrderIds) |-> NoDoc]
  /\ salesOrders = [o \in Range(SalesOrderIds) |-> NoDoc]
  /\ inventoryLogs = <<>>
  /\ costLogs = <<>>
  /\ rendered = [o \in Range(PurchaseOrderIds) \cup Range(SalesOrderIds) |-> {}]
  /\ client = [a \in Actors |-> IdleClient]
  /\ nav = NavIdle
  /\ seed = SeedIdle

NextNav ==
  \/ \E result \in {"user", "failed"} : onAuthStateChanged(result)
  \/ \E r \in Roles : setRole(r)
  \/ \E v \in flatViews("admin") : setCurrentView(v)
  \/ handleParentClick
  \/ useEffect

SpecNav == InitNav /\ [][NextNav]_vars

\* ------------------------------------------------------------ properties
Running(a) == client[a].pc \notin {"idle", "done"}
\* this step ends the handler that session a is running
Ends(a) == Running(a) /\ client'[a].pc = "done"
\* this step is taken by the handler that session a is running
Steps(a) == Running(a) /\ client'[a].pc # "idle" /\
            (client'[a].pc # client[a].pc \/ client'[a].attempt # client[a].attempt
             \/ client'[a].i # client[a].i)

\* C1: shipOrder invoked on a sales order whose stored status is not
\* 'Pending Shipment' fails (the handler has no status error of its own, so
\* any failure is accepted here) and changes no product, appends no
\* inventory log entry and does not rewrite the order.
C1_ShipNotShippable ==
  [][\A a \in Actors :
       (client[a].op = "ship" /\ client[a].storedAtInvoke # "Pending Shipment"
        /\ Ends(a))
       => /\ client'[a].outcome # "ok"
          /\ UNCHANGED <<products, inventoryLogs, salesOrders>>]_vars

\* a shipment called on an order that was already 'Completed' committed
C1_Witness ==
  \E a \in Actors :
    /\ client[a].pc = "done" /\ client[a].op = "ship"
    /\ client[a].storedAtInvoke = "Completed" /\ client[a].outcome = "ok"

\* C2: receiveOrder invoked on a purchase order whose stored status is not
\* 'Pending' ends with OrderNotReceivable at its first step, and that step
\* changes no product and appends nothing to either log.
C2_ReceiveNotReceivable ==
  [][\A a \in Actors :
       (client[a].op = "receive" /\ client[a].storedAtInvoke # "Pending"
        /\ Steps(a))
       => /\ client'[a].pc = "done"
          /\ client'[a].outcome = "OrderNotReceivable"
          /\ UNCHANGED <<products, inventoryLogs, costLogs, purchaseOrders>>]_vars

\* a second call on a received order was rejected
C2_Witness ==
  \E a \in Actors :
    /\ client[a].pc = "done" /\ client[a].op = "receive"
    /\ client[a].storedAtInvoke = "Received"
    /\ client[a].outcome = "OrderNotReceivable"

\* the inventory log entries an order has produced
EntriesOf(o, type) ==
  {k \in 1..Len(inventoryLogs) :
     inventoryLogs[k].relatedDoc = o /\ inventoryLogs[k].type = type}

\* C3: however two receive handlers on the same purchase order interleave,
\* the order's lines are applied once: a received order has exactly one
\* 'in' entry per line, any other order has none.
C3_ReceivedOnce ==
  \A o \in Range(PurchaseOrderIds) :
    IsDoc(purchaseOrders[o]) =>
      Cardinality(EntriesOf(o, "in")) =
        IF purchaseOrders[o].status = "Received"
        THEN Len(purchaseOrders[o].items) ELSE 0

\* a handler was called on a Pending order, ran up to its commit, lost it
\* to the other session's receipt of the same order, and on its second run
\* found the order received
C3_Witness ==
  \E a \in Actors :
    /\ client[a].pc = "done" /\ client[a].op = "receive"
    /\ client[a].storedAtInvoke = "Pending" /\ client[a].attempt = 2
    /\ client[a].outcome = "OrderNotReceivable"

\* C4: when a line of a sales order asks for more than its product's
\* current stock, shipOrder ends with InsufficientStock (or gives up on a
\* conflict) and changes nothing: no product, no log entry, and the order
\* keeps its status.
C4_InsufficientStockAborts ==
  [][\A a \in Actors :
       LET items == client[a].order.items
       IN  (client[a].op = "ship" /\ Ends(a)
            /\ \E k \in 1..Len(items) :
                 Insufficient(products[items[k].productId], items[k]))
           => /\ client'[a].outcome \in {"InsufficientStock", "ConcurrencyConflict"}
              /\ UNCHANGED <<products, inventoryLogs, salesOrders>>]_vars

\* a shipment of two lines, the second one short of stock, ended on the
\* read of its second line
C4_Witness ==
  /\ \E a \in Actors :
       /\ client[a].pc = "done" /\ client[a].op = "ship"
       /\ client[a].outcome = "ReadAfterWrite"
  /\ \E o \in Range(SalesOrderIds) :
       /\ IsDoc(salesOrders[o]) /\ salesOrders[o].status = "Pending Shipment"
       /\ Len(salesOrders[o].items) = 2
       /\ ~Insufficient(products[salesOrders[o].items[1].productId], salesOrders[o].items[1])
       /\ Insufficient(products[salesOrders[o].items[2].productId], salesOrders[o].items[2])
       /\ EntriesOf(o, "out") = {}

\* C5: when a line of a Pending purchase order names a product that does
\* not exist, receiveOrder ends with ProductNotFound (or gives up on a
\* conflict) and changes nothing: no product, no log entry, and the order
\* stays 'Pending'.
C5_ProductNotFoundAborts ==
  [][\A a \in Actors :
       LET items == client[a].order.items
       IN  (client[a].op = "receive" /\ Ends(a)
            /\ purchaseOrders[client[a].order.id].status = "Pending"
            /\ \E k \in 1..Len(items) : ~IsDoc(products[items[k].productId]))
           => /\ client'[a].outcome \in {"ProductNotFound", "ConcurrencyConflict"}
              /\ UNCHANGED <<products, inventoryLogs, costLogs, purchaseOrders>>]_vars

\* a receipt of two lines, the second one of a deleted product, ended on
\* the read of its second line
C5_Witness ==
  /\ \E a \in Actors :
       /\ client[a].pc = "done" /\ client[a].op = "receive"
       /\ client[a].outcome = "ReadAfterWrite"
  /\ \A a \in Actors : client[a].pc \in {"idle", "done"}
  /\ \E o \in Range(PurchaseOrderIds) :
       /\ IsDoc(purchaseOrders[o]) /\ purchaseOrders[o].status = "Pending"
       /\ Len(purchaseOrders[o].items) = 2
       /\ IsDoc(products[purchaseOrders[o].items[1].productId])
       /\ ~IsDoc(products[purchaseOrders[o].items[2].productId])
  /\ \A o \in Range(PurchaseOrderIds) :
       IsDoc(purchaseOrders[o]) => Len(purchaseOrders[o].items) = 2
  /\ inventoryLogs = <<>>

\* C6: a purchase order is 'Received' exactly when the 'in' entry of each
\* of its lines is in the log, and a sales order is 'Completed' exactly
\* when the 'out' entry of each of its lines is in the log.
C6_StatusIffMovement ==
  /\ \A o \in Range(PurchaseOrderIds) :
       IsDoc(purchaseOrders[o]) =>
         Cardinality(EntriesOf(o, "in")) =
           IF purchaseOrders[o].status = "Received"
           THEN Len(purchaseOrders[o].items) ELSE 0
  /\ \A o \in Range(SalesOrderIds) :
       IsDoc(salesOrders[o]) =>
         Cardinality(EntriesOf(o, "out")) =
           IF salesOrders[o].status = "Completed"
           THEN Len(salesOrders[o].items) ELSE 0

\* a shipped order is back at 'Pending Shipment' with its 'out' entry logged
C6_Witness ==
  \E o \in Range(SalesOrderIds) :
    /\ IsDoc(salesOrders[o]) /\ salesOrders[o].status = "Pending Shipment"
    /\ EntriesOf(o, "out") # {}

\* the sum of `change` over the entries of product p in a log
RECURSIVE SumChange(_, _)
SumChange(p, log) ==
  IF log = <<>> THEN 0
  ELSE (IF log[1].productId = p THEN log[1].change ELSE 0) + SumChange(p, Tail(log))

\* C7: for every product, the changes of its inventory log entries add up
\* to its stock.
C7_LogSumIsStock ==
  \A p \in Range(ProductIds) :
    IsDoc(products[p]) => SumChange(p, inventoryLogs) = products[p].stock

\* a product with two receipts and a shipment in its log
C7_Witness ==
  \E p \in Range(ProductIds) :
    /\ IsDoc(products[p]) /\ products[p].stock > 0
    /\ Cardinality({k \in 1..Len(inventoryLogs) :
         inventoryLogs[k].productId = p /\ inventoryLogs[k].type = "in"}) = 2
    /\ \E k \in 1..Len(inventoryLogs) :
         inventoryLogs[k].productId = p /\ inventoryLogs[k].type = "out"

\* C8: no product's stock is ever negative, and a shipment commits only
\* when every line it ships is covered by the stock it is taken from.
C8_StockNeverNegative ==
  /\ [](\A p \in Range(ProductIds) : IsDoc(products[p]) => products[p].stock >= 0)
  /\ [][\A a \in Actors :
          (client[a].op = "ship" /\ Ends(a) /\ client'[a].outcome = "ok")
          => \A k \in 1..Len(client[a].order.items) :
               LET item == client[a].order.items[k]
               IN  /\ IsDoc(products[item.productId])
                   /\ products[item.productId].stock >= item.quantity]_vars

\* a shipment was refused for lack of stock although its products exist
C8_Witness ==
  /\ \E a \in Actors :
       /\ client[a].pc = "done" /\ client[a].op = "ship"
       /\ client[a].outcome = "InsufficientStock"
  /\ \A p \in Range(ProductIds) : IsDoc(products[p])

\* C9: every commit moves the stock of each product by exactly the changes
\* it logs, on top of whatever other orders have committed before it.
C9_NoLostUpdate ==
  [][\A p \in Range(ProductIds) :
       (IsDoc(products[p]) /\ IsDoc(products'[p]))
       => products'[p].stock = products[p].stock +
            SumChange(p, SubSeq(inventoryLogs', Len(inventoryLogs) + 1,
                                Len(inventoryLogs')))]_vars

\* a shipment lost its first commit to a receipt of another order on the
\* same product, ran again and committed on top of it
C9_Witness ==
  /\ \E a \in Actors :
       /\ client[a].pc = "done" /\ client[a].op = "ship"
       /\ client[a].outcome = "ok" /\ client[a].attempt = 2
  /\ Len(inventoryLogs) = 3
  /\ inventoryLogs[1].type = "in" /\ inventoryLogs[2].type = "in"
  /\ inventoryLogs[3].type = "out"
  /\ inventoryLogs[1].productId = inventoryLogs[3].productId
  /\ inventoryLogs[2].productId = inventoryLogs[3].productId
  /\ products[inventoryLogs[3].productId].stock =
       inventoryLogs[1].change + inventoryLogs[2].change + inventoryLogs[3].change

\* the place of a status in its order's life
Rank(status) ==
  CASE status = "Pending" -> 1
    [] status = "Received" -> 2
    [] status = "Pending Approval" -> 1
    [] status = "Pending Shipment" -> 2
    [] status = "Completed" -> 3

\* C10: the status of an order never moves backwards.
C10_StatusMonotonic ==
  [][/\ \A o \in Range(PurchaseOrderIds) :
          IsDoc(purchaseOrders[o]) =>
            Rank(purchaseOrders'[o].status) >= Rank(purchaseOrders[o].status)
     /\ \A o \in Range(SalesOrderIds) :
          IsDoc(salesOrders[o]) =>
            Rank(salesOrders'[o].status) >= Rank(salesOrders[o].status)]_vars

\* an order that has been 'Completed' is stored as 'Pending Shipment'
C10_Witness ==
  \E o \in Range(SalesOrderIds) :
    /\ IsDoc(salesOrders[o]) /\ "Completed" \in rendered[o]
    /\ salesOrders[o].status = "Pending Shipment"

\* C11: approveOrder on a sales order whose stored status is not
\* 'Pending Approval' changes nothing: a step that stores a sales order as
\* 'Pending Shipment' finds it stored as 'Pending Approval', and no step
\* rewrites the status of an order that is already past approval.
C11_ApproveNotPending ==
  [][\A o \in Range(SalesOrderIds) :
       (IsDoc(salesOrders[o]) /\ salesOrders[o].status # "Pending Approval"
        /\ salesOrders'[o].status = "Pending Shipment")
       => salesOrders[o].status = "Pending Shipment"]_vars

\* an approval was written over a completed order while no handler runs
C11_Witness ==
  /\ \A a \in Actors : client[a].pc = "idle"
  /\ \E o \in Range(SalesOrderIds) :
       /\ IsDoc(salesOrders[o]) /\ salesOrders[o].status = "Pending Shipment"
       /\ rendered[o] = {"Pending Approval", "Pending Shipment", "Completed"}

\* the units (or, with valued, the value quantity * cost) of product p on
\* the lines of an item list
RECURSIVE LineTotal(_, _, _)
LineTotal(items, p, valued) ==
  IF items = <<>> THEN 0
  ELSE (IF items[1].productId = p
        THEN (IF valued THEN items[1].quantity * items[1].cost ELSE items[1].quantity)
        ELSE 0) + LineTotal(Tail(items), p, valued)
\* the same over the purchase orders that have been received
RECURSIVE ReceivedTotal(_, _, _)
ReceivedTotal(ids, p, valued) ==
  IF ids = <<>> THEN 0
  ELSE (IF purchaseOrders[ids[1]].status = "Received"
        THEN LineTotal(purchaseOrders[ids[1]].items, p, valued) ELSE 0)
       + ReceivedTotal(Tail(ids), p, valued)
\* product p has been received with positive quantities only and never shipped
OnlyReceipts(p) ==
  /\ \A k \in 1..Len(inventoryLogs) :
       inventoryLogs[k].productId = p =>
         inventoryLogs[k].type = "in" /\ inventoryLogs[k].change > 0
  /\ \E k \in 1..Len(inventoryLogs) : inventoryLogs[k].productId = p

LogOf(p) == SelectSeq(inventoryLogs, LAMBDA e : e.productId = p)
\* the worked example: po1 receives 10 at 100, po2 receives 5 at 130 and
\* so1 ships 12, all of product p1
ExampleOrders ==
  /\ purchaseOrders["po1"].items = <<StoredLine("p1", 10, 100)>>
  /\ purchaseOrders["po2"].items = <<StoredLine("p1", 5, 130)>>
  /\ Len(salesOrders["so1"].items) = 1
  /\ salesOrders["so1"].items[1].productId = "p1"
  /\ salesOrders["so1"].items[1].quantity = 12
\* exactly the first n movements of the example have been committed on p1
ExampleAfter(n) ==
  /\ Len(LogOf("p1")) = n
  /\ \A k \in 1..n : LogOf("p1")[k].relatedDoc = <<"po1", "po2", "so1">>[k]

\* C13: from stock 0 and averageCost 0, receiving 10 at 100 gives stock 10
\* and averageCost 100; then receiving 5 at 130 gives stock 15 and
\* averageCost 110; then shipping 12 gives stock 3, averageCost still 110
\* and costAtSale 110 on the shipped line.
C13_WorkedExample ==
  ExampleOrders =>
    /\ ExampleAfter(1) =>
         products["p1"].stock = 10 /\ products["p1"].averageCost = <<100, 1>>
    /\ ExampleAfter(2) =>
         products["p1"].stock = 15 /\ products["p1"].averageCost = <<110, 1>>
    /\ ExampleAfter(3) =>
         /\ products["p1"].stock = 3 /\ products["p1"].averageCost = <<110, 1>>
         /\ salesOrders["so1"].status = "Completed"
         /\ salesOrders["so1"].items[1].costAtSale = <<110, 1>>

\* the three movements of the example have been committed in that order
C13_Witness == ExampleOrders /\ ExampleAfter(3)

\* this step commits the shipment that session a is running
ShipCommits(a) == client[a].op = "ship" /\ Ends(a) /\ client'[a].outcome = "ok"

\* C14: a committed shipment changes only the stock of the products it
\* ships: every product keeps its averageCost (and every other field), and
\* a product that is not on the order is not changed at all.
C14_ShipKeepsAverageCost ==
  [][\A a \in Actors :
       ShipCommits(a) =>
         \A p \in Range(ProductIds) :
           /\ products'[p].averageCost = products[p].averageCost
           /\ products'[p].cost = products[p].cost
           /\ products'[p] # products[p] =>
                \E k \in 1..Len(client[a].order.items) :
                  client[a].order.items[k].productId = p]_vars

\* a shipment has committed on a product whose average cost is 110
C14_Witness ==
  /\ \E a \in Actors :
       /\ client[a].pc = "done" /\ client[a].op = "ship" /\ client[a].outcome = "ok"
  /\ products["p1"].stock = 3 /\ products["p1"].averageCost = <<110, 1>>

\* C15: when a shipment commits, every line of the now 'Completed' order
\* carries costAtSale = the averageCost its product has in the state the
\* commit is applied to, and keeps its productId and quantity.
C15_CostAtSaleStamped ==
  [][\A a \in Actors :
       ShipCommits(a) =>
         LET o == client[a].order.id
         IN  /\ salesOrders'[o].status = "Completed"
             /\ Len(salesOrders'[o].items) = Len(salesOrders[o].items)
             /\ \A k \in 1..Len(salesOrders[o].items) :
                  LET was == salesOrders[o].items[k]
                      now == salesOrders'[o].items[k]
                  IN  /\ now.productId = was.productId
                      /\ now.quantity = was.quantity
                      /\ now.costAtSale = products[was.productId].averageCost]_vars

\* a shipment read its product at average cost 110 (15 units), lost its
\* commit to the receipt of 5 more at 100, ran again and stamped 107.5
C15_Witness ==
  /\ \E a \in Actors :
       /\ client[a].pc = "done" /\ client[a].op = "ship"
       /\ client[a].outcome = "ok" /\ client[a].attempt = 2
  /\ salesOrders["so1"].status = "Completed"
  /\ salesOrders["so1"].items[1].costAtSale = <<215, 2>>
  /\ products["p1"].stock = 8 /\ products["p1"].averageCost = <<215, 2>>

\* this step commits the receipt that session a is running
ReceiveCommits(a) == client[a].op = "receive" /\ Ends(a) /\ client'[a].outcome = "ok"
\* the cost log entries this step appends
NewCostLogs == SubSeq(costLogs', Len(costLogs) + 1, Len(costLogs'))

\* C16: a committed receipt appends a CostLogEntry for its line exactly
\* when the product's averageCost after the line differs from the one
\* before it, recording the old and the new value; a shipment appends none.
\* (Stated for the receipts that commit, which are of one line.)
C16_CostLogIffChanged ==
  [][\A a \in Actors :
       /\ ShipCommits(a) => costLogs' = costLogs
       /\ (ReceiveCommits(a) /\ Len(client[a].order.items) = 1) =>
            LET item == client[a].order.items[1]
                old == products[item.productId].averageCost
                new == products'[item.productId].averageCost
            IN  NewCostLogs =
                  IF old # new
                  THEN <<[productId |-> item.productId,
                          relatedDoc |-> client[a].order.orderNumber,
                          oldAvgCost |-> old, newAvgCost |-> new]>>
                  ELSE <<>>]_vars

\* 1000000 units at 100 and then 1 unit at 104 were received: the average
\* has moved from 100 to 100.000004 and the cost log holds only the entry
\* of the first receipt
C16_Witness ==
  /\ products["p2"].stock = 1000001
  /\ products["p2"].averageCost = <<100000104, 1000001>>
  /\ Len(SelectSeq(costLogs, LAMBDA e : e.productId = "p2")) = 1
  /\ Len(SelectSeq(inventoryLogs, LAMBDA e : e.productId = "p2")) = 2

C18_SameProductTwice ==
  [][\A a \in Actors :
       LET items == client[a].order.items
           o == client[a].order.id
       IN  (client[a].op = "receive" /\ Ends(a) /\ Len(items) = 2
            /\ items[1].productId = items[2].productId
            /\ IsDoc(products[items[1].productId])
            /\ purchaseOrders[o].status = "Pending"
            /\ client'[a].outcome # "ConcurrencyConflict")
           => LET p == items[1].productId
                  q1 == items[1].quantity
                  q2 == items[2].quantity
                  old == products[p]
                  n == Len(inventoryLogs')
              IN  /\ client'[a].outcome = "ok"
                  /\ products'[p].stock = old.stock + q1 + q2
                  /\ products'[p].averageCost =
                       Rat(RatScale(old.stock, old.averageCost)[1]
                             + (q1 * items[1].cost + q2 * items[2].cost)
                               * RatScale(old.stock, old.averageCost)[2],
                           RatScale(old.stock, old.averageCost)[2]
                             * (old.stock + q1 + q2))
                  /\ n = Len(inventoryLogs) + 2
                  /\ inventoryLogs'[n - 1].newStock = old.stock + q1
                  /\ inventoryLogs'[n].newStock = old.stock + q1 + q2]_vars

\* the receipt of the two-line order has ended on the read of its second
\* line; the order is still 'Pending' and nothing of it is in the log
C18_Witness ==
  /\ \E a \in Actors :
       /\ client[a].pc = "done" /\ client[a].op = "receive"
       /\ client[a].outcome = "ReadAfterWrite"
  /\ Len(purchaseOrders["po3"].items) = 2
  /\ purchaseOrders["po3"].status = "Pending"
  /\ EntriesOf("po3", "in") = {}

\* the entries of a log that an order has produced
EntriesIn(log, o, type) ==
  {k \in 1..Len(log) : log[k].relatedDoc = o /\ log[k].type = type}

\* C19: a step of a handler that does not commit (a failed or refused
\* attempt) leaves the products, the orders and the logs as they are, and
\* when a handler, retried or not, reports success the movement of its
\* order is in the log exactly once: one entry per line.
C19_RetrySafe ==
  [][\A a \in Actors :
       LET o == client[a].order.id
           type == IF client[a].op = "receive" THEN "in" ELSE "out"
           commits == Ends(a) /\ client'[a].outcome = "ok"
       IN  /\ (Steps(a) /\ ~commits) =>
                UNCHANGED <<products, purchaseOrders, salesOrders,
                            inventoryLogs, costLogs>>
           /\ commits =>
                Cardinality(EntriesIn(inventoryLogs', o, type)) =
                  Len(client[a].order.items)]_vars

\* a shipment whose first commit was refused ran again, reported success,
\* and its order's line is in the log twice
C19_Witness ==
  /\ \E a \in Actors :
       /\ client[a].pc = "done" /\ client[a].op = "ship"
       /\ client[a].outcome = "ok" /\ client[a].attempt = 2
  /\ \E o \in Range(SalesOrderIds) :
       /\ IsDoc(salesOrders[o]) /\ Len(salesOrders[o].items) = 1
       /\ Cardinality(EntriesOf(o, "out")) = 2

\* the steps a handler call can still take: those of the run it is in and
\* of the runs it may still start
StepsLeft(c) ==
  LET perRun == Len(c.order.items) + 3
      inRun == CASE c.pc = "getOrder" -> Len(c.order.items) + 2
                 [] c.pc = "getProduct" -> Len(c.order.items) - c.i + 2
                 [] c.pc = "commit" -> 1
                 [] OTHER -> 0
  IN  IF c.pc \in {"idle", "done"} THEN 0
      ELSE (MaxAttempts - c.attempt) * perRun + inRun

\* the guard of one of the handler's steps holds: the handler is not stuck
CanStep(c) ==
  \/ c.pc = "getOrder" /\ c.op = "receive"
  \/ c.pc = "getProduct" /\ c.op \in {"receive", "ship"} /\ c.i \in 1..Len(c.order.items)
  \/ c.pc = "commit"

\* C20: every call of the receive or ship handler terminates: a running
\* handler can always take its next step, each step brings it closer to
\* its end, it never starts more than MaxAttempts runs, and when it gives
\* up on a conflict it has used all its runs and has changed nothing.
C20_BoundedRetries ==
  /\ [](\A a \in Actors :
          Running(a) =>
            /\ client[a].attempt \in 1..MaxAttempts
            /\ CanStep(client[a]))
  /\ [][\A a \in Actors :
          /\ Steps(a) => StepsLeft(client'[a]) < StepsLeft(client[a])
          /\ (Ends(a) /\ client'[a].outcome = "ConcurrencyConflict") =>
               /\ client[a].attempt = MaxAttempts
               /\ UNCHANGED <<products, purchaseOrders, salesOrders,
                               inventoryLogs, costLogs>>]_vars

\* a handler has given up after its last run was refused
C20_Witness ==
  \E a \in Actors :
    /\ client[a].pc = "done" /\ client[a].outcome = "ConcurrencyConflict"
    /\ client[a].attempt = MaxAttempts

\* this step commits the transaction of session a
Commits(a) == client[a].pc = "commit" /\ client'[a].pc = "done" /\ client'[a].outcome = "ok"

\* C21: stock and averageCost are written by the commits of receiveOrder
\* and shipOrder alone: any other step (approving a sales order, creating an
\* order, editing a product's master data, saving remarks) leaves the stock
\* and average cost of every product and both logs as they were, and a
\* product that a step creates has stock 0 and average cost 0.
C21_OnlyMovementsWriteStock ==
  [][(\A a \in Actors : ~Commits(a)) =>
       /\ \A p \in Range(ProductIds) :
            /\ (IsDoc(products[p]) /\ IsDoc(products'[p])) =>
                  /\ products'[p].stock = products[p].stock
                  /\ products'[p].averageCost = products[p].averageCost
            /\ (~IsDoc(products[p]) /\ IsDoc(products'[p])) =>
                  /\ products'[p].stock = 0
                  /\ products'[p].averageCost = RatOfInt(0)
       /\ UNCHANGED <<inventoryLogs, costLogs>>]_vars

\* a product holds stock at an average cost that is not zero after its
\* master data was edited, a second product and a second purchase order were
\* created, and the sales order was approved and given remarks
C21_Witness ==
  /\ IsDoc(products["p1"]) /\ products["p1"].stock = 2
  /\ products["p1"].averageCost = RatOfInt(100)
  /\ products["p1"].lowStockThreshold = 10
  /\ IsDoc(products["p2"]) /\ products["p2"].stock = 0
  /\ IsDoc(purchaseOrders["po2"])
  /\ IsDoc(salesOrders["so1"]) /\ salesOrders["so1"].status = "Pending Shipment"
  /\ salesOrders["so1"].remarks = "fragile"
  /\ Len(inventoryLogs) = 1 /\ Len(costLogs) = 1

\* C22: a receipt of q units at cost c on a product with stock s and
\* average cost a commits newStock = s + q and, when newStock > 0, the
\* average cost (s*a + q*c) / newStock (which is c when s = 0); when
\* newStock is not positive the average cost is c.
C22_WeightedAverage ==
  [][\A a \in Actors :
       (Commits(a) /\ client[a].op = "receive" /\ Len(client[a].order.items) = 1) =>
         LET item == client[a].order.items[1]
             p == item.productId
             s == products[p].stock
             av == products[p].averageCost
             q == item.quantity
             c == item.cost
         IN  /\ products'[p].stock = s + q
             /\ products'[p].averageCost =
                  IF s + q > 0
                  THEN Rat(s * av[1] + q * c * av[2], av[2] * (s + q))
                  ELSE <<c, 1>>]_vars

\* one product was received twice (1000000 @ 100 and 1 @ 104, in either
\* order), the other once with a line of no units on no stock
C22_Witness ==
  /\ products["p2"].stock = 1000001
  /\ products["p2"].averageCost = <<100000104, 1000001>>
  /\ purchaseOrders["po3"].status = "Received"
  /\ products["p1"].stock = 0 /\ products["p1"].averageCost = <<100, 1>>

\* C23: when every line of the received purchase orders has a cost that is
\* not negative and a positive quantity, the average cost of every product
\* is not negative.
C23_AverageCostNotNegative ==
  (\A o \in DOMAIN purchaseOrders :
     (IsDoc(purchaseOrders[o]) /\ purchaseOrders[o].status = "Received") =>
       \A k \in 1..Len(purchaseOrders[o].items) :
         purchaseOrders[o].items[k].cost >= 0 /\ purchaseOrders[o].items[k].quantity > 0)
  => \A p \in Range(ProductIds) :
       IsDoc(products[p]) =>
         products[p].averageCost[1] >= 0 /\ products[p].averageCost[2] > 0

\* three receipts of positive quantity have left an average cost that is
\* not a whole number
C23_Witness ==
  /\ \A o \in DOMAIN purchaseOrders : purchaseOrders[o].status = "Received"
  /\ \A o \in DOMAIN purchaseOrders : purchaseOrders[o].items[1].quantity > 0
  /\ \E p \in Range(ProductIds) : products[p].averageCost[2] > 1

\* C24: every inventory log entry is well formed: when a transaction
\* commits, each entry it appends has a positive change if its type is
\* 'in' and a negative change if its type is 'out', and its newStock is the
\* product's stock before the commit plus the change, which is the
\* product's stock after the commit (the order holding one line for that
\* product).
C24_LogEntryWellFormed ==
  [][\A a \in Actors :
       Commits(a) =>
         /\ Len(inventoryLogs') = Len(inventoryLogs) + Len(client[a].order.items)
         /\ \A k \in (Len(inventoryLogs) + 1)..Len(inventoryLogs') :
              LET e == inventoryLogs'[k]
              IN  /\ e.type \in {"in", "out"}
                  /\ e.type = "in" => e.change > 0
                  /\ e.type = "out" => e.change < 0
                  /\ e.newStock = products[e.productId].stock + e.change
                  /\ LineTotal(client[a].order.items, e.productId, FALSE) = Abs(e.change)
                       => e.newStock = products'[e.productId].stock]_vars

\* the log holds a receipt that brought a product to 2 units and a shipment
\* that took a product to 0
C24_Witness ==
  /\ \E k \in 1..Len(inventoryLogs) :
       inventoryLogs[k].type = "in" /\ inventoryLogs[k].newStock = 2
  /\ \E k \in 1..Len(inventoryLogs) :
       inventoryLogs[k].type = "out" /\ inventoryLogs[k].newStock = 0

\* log is carried over entry by entry into log2
Extends(log2, log) ==
  Len(log2) >= Len(log) /\ \A k \in 1..Len(log) : log2[k] = log[k]

\* C25: both logs are append-only: no step modifies or removes an entry of
\* the inventory log or of the cost log.
C25_LogsAppendOnly ==
  [][Extends(inventoryLogs', inventoryLogs) /\ Extends(costLogs', costLogs)]_vars

\* two receipts and a shipment are logged, two of them with a change of
\* the average cost, and remarks were saved on the shipped order
C25_Witness ==
  /\ Len(inventoryLogs) = 3 /\ inventoryLogs[3].type = "out"
  /\ Len(costLogs) = 2
  /\ IsDoc(salesOrders["so1"]) /\ salesOrders["so1"].remarks = "fragile"

\* C26: every order that order creation stores has a list of items that is
\* not empty, each line with a product id that is not empty and a quantity
\* above 0, and starts in its initial status ('Pending' for a purchase
\* order, 'Pending Approval' for a sales order); a form without a valid line
\* stores no order.
C26_StoredOrderValid ==
  [][\A o \in Orders :
       LET before == StoredOrder(o)
           after == IF IsPurchase(o) THEN purchaseOrders'[o] ELSE salesOrders'[o]
       IN  (~IsDoc(before) /\ IsDoc(after)) =>
             /\ Len(after.items) > 0
             /\ \A k \in 1..Len(after.items) :
                  after.items[k].productId # "" /\ after.items[k].quantity > 0
             /\ after.status = IF IsPurchase(o) THEN "Pending" ELSE "Pending Approval"]_vars

\* a purchase order of two lines and a sales order of one line were stored
\* and nothing has happened to them since
C26_Witness ==
  /\ IsDoc(purchaseOrders["po1"]) /\ Len(purchaseOrders["po1"].items) = 2
  /\ purchaseOrders["po1"].status = "Pending"
  /\ IsDoc(salesOrders["so1"]) /\ Len(salesOrders["so1"].items) = 1
  /\ salesOrders["so1"].status = "Pending Approval"
  /\ ~IsDoc(purchaseOrders["po2"])

\* C27: when seedCollection has completed, the collection holds exactly one
\* document per element of data, none of the documents it held before the
\* call is left, nor any document of their subcollections, and the returned
\* list has the id of the document of each element, in the order of data.
C27_SeedReplaces ==
  seed.pc = "done" =>
    /\ seed.old = 0 /\ seed.oldSub = 0
    /\ Len(seed.docs) = Len(seed.data)
    /\ Len(seed.docIds) = Len(seed.data)
    /\ \A k \in 1..Len(seed.data) : seed.docIds[k] = seed.docs[k].id

\* the second run of the script has deleted the documents of the first and
\* left the subcollection documents it wrote
C27_Witness ==
  /\ seed.pc = "done" /\ seed.run = 2
  /\ seed.old = 0 /\ seed.oldSub = 2
  /\ Len(seed.docs) = 2

\* the units of product p on the lines of the orders of coll that are
\* stored with the given status, every order counted once
RECURSIVE MovedTotal(_, _, _, _)
MovedTotal(coll, ids, status, p) ==
  IF ids = <<>> THEN 0
  ELSE (IF IsDoc(coll[ids[1]]) /\ coll[ids[1]].status = status
        THEN LineTotal(coll[ids[1]].items, p, FALSE) ELSE 0)
       + MovedTotal(coll, Tail(ids), status, p)

\* C28: in every reachable state the stock of each product is the total
\* quantity on the lines of the 'Received' purchase orders minus the total
\* quantity on the lines of the 'Completed' sales orders, every order
\* counted exactly once.
C28_StockIsOrdersBalance ==
  \A p \in Range(ProductIds) :
    IsDoc(products[p]) =>
      products[p].stock =
        MovedTotal(purchaseOrders, PurchaseOrderIds, "Received", p)
        - MovedTotal(salesOrders, SalesOrderIds, "Completed", p)

\* two units were received and the one sales order, of one unit, is
\* 'Completed', yet no stock is left: the order was shipped twice
C28_Witness ==
  \E p \in Range(ProductIds) :
    /\ IsDoc(products[p]) /\ products[p].stock = 0
    /\ MovedTotal(purchaseOrders, PurchaseOrderIds, "Received", p) = 2
    /\ MovedTotal(salesOrders, SalesOrderIds, "Completed", p) = 1
    /\ Cardinality(EntriesOf("so1", "out")) = 2

\* every product on the lines exists (a receipt) and holds the units the
\* lines ask for in all (a shipment)
Receivable(items) ==
  \A k \in 1..Len(items) : IsDoc(products[items[k].productId])
Shippable(items) ==
  \A k \in 1..Len(items) :
    /\ IsDoc(products[items[k].productId])
    /\ products[items[k].productId].stock >= LineTotal(items, items[k].productId, FALSE)
\* no other session runs a handler
Alone(a) == \A b \in Actors \ {a} : ~Running(b)

\* C29: receiveOrder on a purchase order stored as 'Pending' whose products
\* all exist, and shipOrder on a sales order stored as 'Pending Shipment'
\* whose products all hold enough stock, end with success when no other
\* transaction interferes, whatever the number of lines of the order.
C29_MultiLineCommits ==
  [][\A a \in Actors :
       LET c == client[a]
       IN  (/\ Ends(a) /\ Alone(a) /\ c.attempt = 1 /\ ~c.stale
            /\ c.storedAtInvoke = StoredStatus(c.order.id)
            /\ \/ /\ c.op = "receive" /\ c.storedAtInvoke = "Pending"
                  /\ Receivable(c.order.items)
               \/ /\ c.op = "ship" /\ c.storedAtInvoke = "Pending Shipment"
                  /\ Shippable(c.order.items))
           => client'[a].outcome = "ok"]_vars

\* a shipment of two lines has failed on its second read although both
\* products hold the units asked for, the order is still 'Pending Shipment'
\* and no other session was at work
C29_Witness ==
  \E a \in Actors :
    /\ client[a].pc = "done" /\ client[a].op = "ship"
    /\ client[a].outcome = "ReadAfterWrite" /\ client[a].attempt = 1
    /\ Alone(a)
    /\ \E o \in Range(SalesOrderIds) :
         /\ IsDoc(salesOrders[o]) /\ salesOrders[o].status = "Pending Shipment"
         /\ Len(salesOrders[o].items) = 2
         /\ Shippable(salesOrders[o].items)
         /\ EntriesOf(o, "out") = {}

\* C30: whatever the role switches and navigation clicks, the component of
\* an admin-only view (products, customers, suppliers, inventory, sales,
\* purchases, reports) is on screen only while the role is 'admin', and
\* once the effect has run the current view is one of the views available
\* to the role: a view that is not has been reset to 'dashboard'.
C30_AdminViewsGuarded ==
  /\ nav.screen \in {AdminComponent[v] : v \in DOMAIN AdminComponent}
       => nav.role = "admin"
  /\ ~nav.effect => nav.currentView \in flatViews(nav.role)

\* the role was switched to 'warehouse' while the product view was open:
\* the render shows AccessDenied and the effect has not run yet
C30_Witness ==
  /\ nav.role = "warehouse" /\ nav.currentView = "products"
  /\ nav.auth = "user" /\ nav.effect
  /\ nav.screen = "AccessDenied"

====
